---- MODULE Spec2Model ----
(***************************************************************************)
(* FaceAttendanceApp (src/attendance.py): a Tk front end over a remote    *)
(* face collection (Rekognition) and two remote tables (DynamoDB), with a  *)
(* camera polling thread.                                                  *)
(*                                                                         *)
(* Spec       : the camera thread(s), the UI thread's camera handlers and  *)
(*              the idle-callback queue between them.                      *)
(* SpecStore  : the constructor, registration, attendance and deletion     *)
(*              against the remote store.                                  *)
(* SpecViews  : the user list, search, verification and dashboard views.   *)
(* SpecReport : the attendance report and its export.                      *)
(* SpecF2D    : float_to_decimal over nested values.                       *)
(***************************************************************************)
EXTENDS Integers, Sequences, FiniteSets, TLC

\* ---------------------------------------------------------------- bounds
\* successful start_camera calls (each starts one thread)
MaxSessions == 2
\* frames the device delivers in all
MaxFrames == 2
\* store mutations (each takes one tick of the clock)
MaxClock == 2
\* calendar days the clock passes through
MaxDays == 2
\* items one page of a table scan holds (the store cuts a page at 1 MB)
PageSize == 2
\* nodes (containers and leaves) of a value given to float_to_decimal
MaxNodes == 4

\* ------------------------------------------------------------ constants
\* every CheckEvery-th frame of the register tab is checked for a face
CheckEvery == 10
\* the frame rate is printed every FpsEvery frames in debug mode
FpsEvery == 30

Tabs == {"register", "attendance", "verify"}

\* An image: a frame of the camera (s = the thread that read it), a picture
\* read from a file, or NoFrame (Python None).
NoFrame == [src |-> "none", s |-> 0]
FileImage == [src |-> "file", s |-> 0]
Frame(t) == [src |-> "camera", s |-> t]

\* ------------------------------------------------------------ variables
VARIABLES
    is_camera_running,  \* self.is_camera_running
    camera,             \* self.camera: "None", "open" or "closed" (an object
                        \* that is not opened, or was released)
    current_frame,      \* self.current_frame
    camera_thread,      \* self.camera_thread: id of the last thread, 0 = None
    threads,            \* id -> [pc, tab, fc] of update_camera(tab)
    nFrames,            \* frames the device has delivered
    idleQ,              \* callbacks queued with after_idle, oldest first
    ui,                 \* the UI thread: idle, or blocked in stop_camera's join
    closed,             \* the window was destroyed
    btn,                \* tab -> [text of the start/stop button, capture state]
    captured,           \* tab -> <tab>_captured_image
    users,              \* remote users table (set of items, key user_id)
    faces,              \* remote face collection: [face_id, ext]
    attendance,         \* remote attendance table (key user_id, timestamp)
    clock,              \* datetime.now(): one tick per store mutation
    today,              \* the date part of datetime.now()
    boot,               \* the constructor: "new", then "run" or "crashed"
    provisioned,        \* the two tables exist
    usersView,          \* user ids listed in the Manage Users table
    verifyList,         \* values of the verification combobox
    dash,               \* dashboard cards: [total, present]
    reportView,         \* rows of the Reports table
    csvFile,            \* lines of the exported file, <<>> = no file
    timers,             \* pending after(60000, update_dashboard_stats) calls
    op,                 \* the operation the last step belongs to
    calls,              \* remote calls issued in the last step, in order
    acc,                \* widget / Tk variable accesses of the last step
    fail,               \* what became of remote failures in the last step
    msg,                \* the message the last step showed
    f2d                 \* float_to_decimal: [arg, ret, prev, n calls chained]

camVars == <<is_camera_running, camera, current_frame, camera_thread, threads,
             nFrames, idleQ, ui, closed, btn>>
storeVars == <<users, faces, attendance, clock, today, boot, provisioned>>
viewVars == <<usersView, verifyList, dash, reportView, csvFile, timers>>
logVars == <<op, calls, acc, fail, msg>>
vars == <<camVars, captured, storeVars, viewVars, logVars, f2d>>

\* ------------------------------------------------------------- helpers
NoFail == [silent |-> FALSE, dialog |-> FALSE, uncaught |-> FALSE]

\* The UI thread touches widgets in every handler; which one is not recorded.
UiTouch(w) == {[by |-> "ui", w |-> "widget"]}

Alive(t) == threads[t].pc \notin {"none", "done"}
AliveThreads == {t \in DOMAIN threads : Alive(t)}

IdleUi == [pc |-> "idle", tab |-> "register", cont |-> "stop_camera"]

\* ------------------------------------------------------ values and text
\* Text is a sequence of one-character strings.
RECURSIVE lstrip(_)
lstrip(s) == IF s # <<>> /\ Head(s) = " " THEN lstrip(Tail(s)) ELSE s
RECURSIVE rstrip(_)
rstrip(s) ==
    IF s # <<>> /\ s[Len(s)] = " " THEN rstrip(SubSeq(s, 1, Len(s) - 1)) ELSE s
stripID(s) == s
\* str.strip()
strip(s) == rstrip(lstrip(s))

\* The characters of the model's texts, in code point order.
Alphabet == <<" ", ",", "H", "N", "R", "a", "b", "e", "h", "n", "r">>
Rank(c) == CHOOSE i \in 1..Len(Alphabet) : Alphabet[i] = c

\* a < b as Python compares strings
RECURSIVE TextLess(_, _)
TextLess(a, b) ==
    IF b = <<>> THEN FALSE
    ELSE IF a = <<>> THEN TRUE
    ELSE IF Head(a) # Head(b) THEN Rank(Head(a)) < Rank(Head(b))
    ELSE TextLess(Tail(a), Tail(b))

\* list.sort() of a list of distinct texts
RECURSIVE SortTexts(_)
SortTexts(set) ==
    IF set = {} THEN <<>>
    ELSE LET m == CHOOSE x \in set : \A y \in set \ {x} : TextLess(x, y)
         IN  <<m>> \o SortTexts(set \ {m})

\* str.lower()
LowerChar(c) ==
    IF c = "H" THEN "h" ELSE IF c = "N" THEN "n" ELSE IF c = "R" THEN "r" ELSE c
lower(s) == [i \in 1..Len(s) |-> LowerChar(s[i])]

\* sub in s
Contains(sub, s) ==
    \E i \in 0..(Len(s) - Len(sub)) : SubSeq(s, i + 1, i + Len(sub)) = sub

\* A number is [t, v]: its Python type and its digits as str() prints them.
Confs == {[t |-> "float", v |-> "99.5"], [t |-> "int", v |-> "100"]}
\* str(x)
PyStr(x) == x.v
\* Decimal(s)
Decimal(s) == [t |-> "decimal", v |-> s]
DecimalStrID(x) == x
\* Decimal(str(confidence))
DecimalStr(x) == Decimal(PyStr(x))

\* ------------------------------------------------- the remote services
Apis == {"tables.all", "create_table", "list_collections", "create_collection",
         "users.get_item", "users.put_item", "users.scan", "users.delete_item",
         "attendance.put_item", "attendance.scan", "detect_faces",
         "index_faces", "search_faces_by_image", "delete_faces", "list_faces"}

\* The first page of a scan: the whole table when it fits one page, else
\* any PageSize items of it (the rest comes with LastEvaluatedKey).
Pages(table) ==
    IF Cardinality(table) <= PageSize THEN {table}
    ELSE {p \in SUBSET table : Cardinality(p) = PageSize}

\* table.scan(): the filter applies to the items of the page.
ScanFirstPage(table, Keep(_)) == {{x \in p : Keep(x)} : p \in Pages(table)}

\* table.get_item(Key={'user_id': id}): the items found (none or one).
GetItemNone(table, id) == {}
GetItem(table, id) == {x \in table : x.user_id = id}

\* table.put_item(Item=item) on the users table (key user_id).
PutUser(table, item) == {x \in table : x.user_id # item.user_id} \cup {item}

\* table.put_item(Item=item) on the attendance table (key user_id, timestamp).
PutAttendanceAnon(table, item) == table \cup {[item EXCEPT !.name = <<>>]}
PutAttendance(table, item) ==
    {x \in table : ~(x.user_id = item.user_id /\ x.timestamp = item.timestamp)}
        \cup {item}

\* Values: a leaf is [t, v]; a list is [t, kids]; a dict is [t, keys, kids],
\* kids[i] being the value under keys[i].
Leaves == {[t |-> "float", v |-> "99.5"], [t |-> "int", v |-> "100"],
           [t |-> "str", v |-> "x"]}
KeyNames == <<"k1", "k2", "k3", "k4", "k5", "k6">>
List(kids) == [t |-> "list", kids |-> kids]
Dict(kids) == [t |-> "dict", keys |-> SubSeq(KeyNames, 1, Len(kids)), kids |-> kids]

\* The values of n nodes, and the sequences of values of n nodes in all.
RECURSIVE ValuesOf(_), Forest(_)
ValuesOf(n) ==
    IF n = 1 THEN Leaves \cup {List(<<>>), Dict(<<>>)}
    ELSE {List(f) : f \in Forest(n - 1)} \cup {Dict(f) : f \in Forest(n - 1)}
Forest(n) ==
    IF n = 0 THEN {<<>>}
    ELSE UNION {{<<x>> \o f : x \in ValuesOf(k), f \in Forest(n - k)} : k \in 1..n}
Values == UNION {ValuesOf(n) : n \in 1..MaxNodes}

RECURSIVE float_to_decimal(_)
float_to_decimal_flat(obj) ==
    IF obj.t = "float" THEN Decimal(PyStr(obj)) ELSE obj
float_to_decimal(obj) ==
    IF obj.t = "float" THEN Decimal(PyStr(obj))
    ELSE IF obj.t = "dict"
    THEN [obj EXCEPT !.kids = [i \in DOMAIN obj.kids |-> float_to_decimal(obj.kids[i])]]
    ELSE IF obj.t = "list"
    THEN [obj EXCEPT !.kids = [i \in DOMAIN obj.kids |-> float_to_decimal(obj.kids[i])]]
    ELSE obj

\* ------------------------------------------- handlers on the UI thread
\* A handler maps the state it starts in to the set of states it can end
\* in; S carries the variables a handler can change and what it logged.
Cur ==
    [users |-> users, faces |-> faces, attendance |-> attendance,
     clock |-> clock, today |-> today, boot |-> boot,
     provisioned |-> provisioned, usersView |-> usersView,
     verifyList |-> verifyList, dash |-> dash, reportView |-> reportView,
     csvFile |-> csvFile, timers |-> timers, idleQ |-> idleQ,
     captured |-> captured,
     calls |-> <<>>, acc |-> {}, fail |-> NoFail, msg |-> "", ret |-> 0]

Commit(S, name) ==
    /\ users' = S.users /\ faces' = S.faces /\ attendance' = S.attendance
    /\ clock' = S.clock /\ today' = S.today /\ usersView' = S.usersView
    /\ boot' = S.boot /\ provisioned' = S.provisioned
    /\ verifyList' = S.verifyList /\ dash' = S.dash
    /\ reportView' = S.reportView /\ csvFile' = S.csvFile
    /\ timers' = S.timers
    /\ idleQ' = S.idleQ /\ captured' = S.captured
    /\ calls' = S.calls /\ acc' = S.acc /\ fail' = S.fail /\ msg' = S.msg
    /\ op' = name
    /\ UNCHANGED f2d

Bind(Ss, F(_)) == UNION {F(S) : S \in Ss}

Call(S, api) == [S EXCEPT !.calls = Append(@, [api |-> api, by |-> "ui"])]
\* except: ... with no messagebox (a label or a debug print at most)
Swallow(S, m) == [S EXCEPT !.fail.silent = TRUE, !.msg = m]
\* except: messagebox.showerror(...)
ShowError(S, m) == [S EXCEPT !.fail.dialog = TRUE, !.msg = m]
Show(S, m) == [S EXCEPT !.msg = m]
Touch(S, w) == [S EXCEPT !.acc = @ \cup UiTouch(w)]

\* detect_faces_in_image: ret = the number of FaceDetails.
detect_faces_in_image(S, down) ==
    LET S1 == Call(S, "detect_faces") IN
    IF "detect_faces" \in down
    THEN {[Swallow(S1, S1.msg) EXCEPT !.ret = 0]}
    ELSE {[S1 EXCEPT !.ret = n] : n \in 0..2}

\* check_face_in_image: the label text (no face, several faces, low quality,
\* face detected) is written to face_detected_label.
check_face_in_image(S, down) ==
    {Touch(D, "face_detected_label") : D \in detect_faces_in_image(S, down)}

\* update_dashboard_stats up to its last line: both scans read one page; a
\* failure is printed in debug mode only.
uds_refresh(S, down) ==
    LET S1 == Call(S, "users.scan")
        S2 == Call(S1, "attendance.scan")
        Today(x) == x.timestamp.day = S.today
    IN  IF "users.scan" \in down THEN {Swallow(S1, S1.msg)}
        ELSE IF "attendance.scan" \in down THEN {Swallow(S2, S2.msg)}
        ELSE {Touch([S2 EXCEPT !.dash = [total |-> Cardinality(pu),
                                         present |-> Cardinality({x.user_id : x \in pa})]],
                    "stat_card")
                : pu \in Pages(S.users), pa \in ScanFirstPage(S.attendance, Today)}

\* update_dashboard_stats: whoever called it and however the refresh went,
\* it ends with self.after(60000, self.update_dashboard_stats).
update_dashboard_stats(S, down) ==
    {[R EXCEPT !.timers = @ + 1] : R \in uds_refresh(S, down)}

\* One callback queued by the camera thread, run by the UI thread.
RunCallback(S, cb, down) ==
    IF cb.f = "check_face_in_image" THEN check_face_in_image(S, down)
    ELSE {Touch(S, "display_label")}

\* self.update(): the event loop runs every pending callback.
RECURSIVE update(_, _)
update(S, down) ==
    IF S.idleQ = <<>> THEN {S}
    ELSE Bind(RunCallback([S EXCEPT !.idleQ = Tail(@)], Head(S.idleQ), down),
              LAMBDA R : update(R, down))

\* process_attendance, from the search on (a face was detected).
pa_search(S, down, in) ==
    LET S1 == Call(S, "search_faces_by_image")
        Err(X) == Swallow(X, "Error processing attendance")
        NoMatch == Show(S1, "No matching face found")
        Matched(f, late, conf) ==
            LET S2 == Call(S1, "users.get_item")
                found == GetItem(S.users, f.ext)
                S3 == Call(S2, "attendance.put_item")
                item(u) == [user_id |-> f.ext, name |-> u.name,
                            timestamp |-> [day |-> S.today, t |-> S.clock],
                            status |-> IF late THEN "late" ELSE "present",
                            confidence |-> DecimalStr(conf)]
                put(u) == [S3 EXCEPT !.attendance = PutAttendance(@, item(u)),
                                     !.clock = @ + 1,
                                     !.msg = "Attendance recorded successfully!"]
            IN  IF "users.get_item" \in down THEN {Err(S2)}
                ELSE IF found = {} THEN {Show(S2, "Error: User data not found")}
                ELSE IF "attendance.put_item" \in down THEN {Err(S3)}
                ELSE IF S.clock >= MaxClock THEN {}
                ELSE UNION {update_dashboard_stats(put(u), down) : u \in found}
    IN  IF "search_faces_by_image" \in down THEN {Err(S1)}
        ELSE {NoMatch} \cup
             UNION {Matched(f, late, conf) :
                        f \in S.faces, late \in in.lates, conf \in in.confs}

process_attendance(S, down, in) ==
    IF S.captured["attendance"] = NoFrame THEN {S}
    ELSE Bind(update(Touch(S, "results_frame"), down),
              LAMBDA U :
                Bind(detect_faces_in_image(U, down),
                     LAMBDA D : IF D.ret = 0
                                THEN {Show(D, "No face detected in the image")}
                                ELSE pa_search(D, down, in)))

\* load_verify_users: one page of the users table, sorted; a failure is
\* printed in debug mode only.
load_verify_users(S, down) ==
    LET S1 == Call(S, "users.scan") IN
    IF "users.scan" \in down THEN {Swallow(S1, S1.msg)}
    ELSE {Touch([S1 EXCEPT !.verifyList = SortTexts({u.user_id : u \in pg})],
                "verify_user_id") : pg \in Pages(S.users)}

\* load_users: the table widget is emptied, then filled from one scan page.
load_users(S, down) ==
    LET S0 == Touch([S EXCEPT !.usersView = {}], "users_table")
        S1 == Call(S0, "users.scan")
    IN  IF "users.scan" \in down THEN {ShowError(S1, "Failed to load users")}
        ELSE UNION {load_verify_users([S1 EXCEPT !.usersView = {u.user_id : u \in pg}],
                                      down) : pg \in Pages(S.users)}

\* search_users: as load_users, keeping the users a field of which holds the
\* lower-cased search term.
search_users(S, term, down) ==
    LET S0 == Touch([S EXCEPT !.usersView = {}], "users_table")
        S1 == Call(S0, "users.scan")
        Hit(u) == \/ Contains(lower(term), lower(u.user_id))
                  \/ Contains(lower(term), lower(u.name))
                  \/ Contains(lower(term), lower(u.email))
                  \/ Contains(lower(term), lower(u.department))
    IN  IF "users.scan" \in down THEN {ShowError(S1, "Failed to search users")}
        ELSE {[S1 EXCEPT !.usersView = {u.user_id : u \in {x \in pg : Hit(x)}}]
                : pg \in Pages(S.users)}

\* reset_register_image
reset_register(S) == Touch([S EXCEPT !.captured["register"] = NoFrame], "register_btn")

\* The quality slider holds a float, kept here in tenths: from_=70, to=99.
SliderFrom == 700
SliderTo == 990
SliderDefault == 800
SliderPositions == {SliderFrom, SliderDefault, 899, 900, SliderTo}

\* int(float(value)) of a value in tenths
int_float(x) == x \div 10

\* The tier register_user derives from quality_threshold.
quality_filter_auto(quality_threshold) == "AUTO"
quality_filter(quality_threshold) ==
    IF quality_threshold >= 90 THEN "HIGH"
    ELSE IF quality_threshold >= 70 THEN "MEDIUM"
    ELSE IF quality_threshold >= 50 THEN "LOW"
    ELSE "NONE"

\* rekognition.index_faces(..., QualityFilter=quality_filter)
CallIndexFaces(S, slider) ==
    [S EXCEPT !.calls = Append(@, [api |-> "index_faces", by |-> "ui",
                                   QualityFilter |-> quality_filter(int_float(slider))])]

\* register_user from index_faces on: one face of good enough quality was
\* detected (or the operator went on with a poor one).
ru_index_at(S, user_id, name, email, department, down, in, slider) ==
    LET S1 == CallIndexFaces(S, slider)
        Err(X) == Swallow(X, "Error")
        NoRecord == Show(S1, "No face detected or face quality too low")
        face == [face_id |-> S.clock, ext |-> user_id]
        S2 == Call([S1 EXCEPT !.faces = @ \cup {face}, !.clock = @ + 1],
                   "users.put_item")
        item(conf) == [user_id |-> user_id, name |-> name, email |-> email,
                       department |-> department, face_id |-> face.face_id,
                       confidence |-> DecimalStr(conf),
                       created_at |-> [day |-> S.today, t |-> S.clock]]
        stored(conf) == Show(reset_register([S2 EXCEPT !.users = PutUser(@, item(conf))]),
                             "registered successfully")
    IN  IF "index_faces" \in down THEN {Err(S1)}
        ELSE {NoRecord} \cup
             IF S.clock >= MaxClock THEN {}
             ELSE IF "users.put_item" \in down THEN {Err(S2)}
             ELSE UNION {Bind(load_users(stored(conf), down),
                              LAMBDA L : update_dashboard_stats(L, down))
                            : conf \in in.confs}

ru_index_blind(S, user_id, name, email, department, down, in) ==
    {[S EXCEPT !.users = PutUser(@, [user_id |-> user_id, name |-> name,
                                      email |-> email, department |-> department,
                                      face_id |-> S.clock,
                                      confidence |-> Decimal("100"),
                                      created_at |-> [day |-> S.today, t |-> S.clock]])]}
ru_index(S, user_id, name, email, department, down, in) ==
    UNION {ru_index_at(S, user_id, name, email, department, down, in, slider)
             : slider \in in.quality}

\* register_user; form holds the four entries as typed.
register_user(S, form, down, in) ==
    LET user_id == strip(form.user_id)
        name == strip(form.name)
        email == strip(form.email)
        department == strip(form.department)
        S1 == Call(S, "users.get_item")
        Err(X) == Swallow(X, "Error")
        Checked(D) ==
            IF D.ret = 0 THEN {Show(D, "No face detected in the image")}
            ELSE IF D.ret > 1 THEN {Show(D, "Multiple faces detected")}
            ELSE {D}   \* low quality and the operator answered No
                 \cup ru_index(D, user_id, name, email, department, down, in)
    IN  IF user_id = <<>> \/ name = <<>> \/ email = <<>> \/ department = <<>>
        THEN {Show(S, "Please fill in all fields")}
        ELSE IF S.captured["register"] = NoFrame
        THEN {Show(S, "Please capture an image first")}
        ELSE IF "users.get_item" \in down THEN {Err(S1)}
        ELSE IF GetItem(S.users, user_id) # {} THEN {Show(S1, "already exists")}
        ELSE Bind(detect_faces_in_image(S1, down), Checked)

\* delete_user; sel is the selected row of the users table (<<>> = none).
delete_user(S, sel, confirm, down) ==
    LET S1 == Call(S, "users.get_item")
        found == GetItem(S.users, sel)
        Err(X) == ShowError(X, "Failed to delete user")
        Gone(u) ==
            LET S2 == Call(S1, "delete_faces")
                S3 == Call([S2 EXCEPT !.faces = {f \in @ : f.face_id # u.face_id}],
                           "users.delete_item")
                S4 == Show(Touch([S3 EXCEPT !.users = @ \ {u},
                                            !.usersView = @ \ {sel}], "users_table"),
                           "deleted successfully")
            IN  IF "delete_faces" \in down THEN {Err(S2)}
                ELSE IF "users.delete_item" \in down THEN {Err(S3)}
                ELSE Bind(update_dashboard_stats(S4, down),
                          LAMBDA U : load_verify_users(U, down))
    IN  IF sel = <<>> THEN {Show(S, "Please select a user to delete")}
        ELSE IF ~confirm THEN {S}
        ELSE IF "users.get_item" \in down THEN {Err(S1)}
        ELSE IF found = {} THEN {Show(S1, "not found")}
        ELSE UNION {Gone(u) : u \in found}

\* verify_face; sel is the user chosen in the combobox (<<>> = none).
verify_face(S, sel, down) ==
    LET Err(X) == Swallow(X, "Error")
        Searched(D) ==
            LET S1 == Call(D, "search_faces_by_image")
                S2 == Call(S1, "users.get_item")
            IN  IF "search_faces_by_image" \in down THEN {Err(S1)}
                ELSE {Show(S1, "NOT VERIFIED")} \cup
                     IF \E f \in S.faces : f.ext = sel
                     THEN IF "users.get_item" \in down THEN {Err(S2)}
                          ELSE IF GetItem(S.users, sel) = {}
                          THEN {Show(S2, "User data not found")}
                          ELSE {Show(S2, "VERIFIED"), Show(S2, "POSSIBLE MATCH")}
                     ELSE {}
    IN  IF S.captured["verify"] = NoFrame
        THEN {Show(S, "Please capture or load an image first")}
        ELSE IF sel = <<>> THEN {Show(S, "Please select a user to verify against")}
        ELSE Bind(detect_faces_in_image(S, down),
                  LAMBDA D : IF D.ret = 0 THEN {Show(D, "No face detected in the image")}
                             ELSE IF D.ret > 1 THEN {Show(D, "Multiple faces detected")}
                             ELSE Searched(D))

\* The date entry of the reports tab holds free text: a date, a shorter
\* prefix of the timestamps (a month), or something else.
DateStrs == {[kind |-> "date", day |-> d] : d \in 1..MaxDays}
                \cup {[kind |-> "month", day |-> 0], [kind |-> "other", day |-> 0]}

\* datetime.strptime(date_str, "%Y-%m-%d") succeeds
IsDate(date_str) == date_str.kind = "date"

\* begins_with(timestamp, date_str)
begins_with(ts, date_str) ==
    IF date_str.kind = "date" THEN ts.day = date_str.day
    ELSE date_str.kind = "month"

NoReport == [rows |-> {}, present |-> 0, late |-> 0, absent |-> 0]

\* load_attendance_report
load_attendance_report(S, date_str, down) ==
    LET S0 == Touch([S EXCEPT !.reportView.rows = {}], "attendance_table")
        S1 == Call(S0, "attendance.scan")
        S2 == Call(S1, "users.scan")
        Err(X) == ShowError(X, "Failed to load attendance report")
        OfDate(x) == begins_with(x.timestamp, date_str)
        With(X, status) == {x.user_id : x \in {r \in X : r.status = status}}
        Shown(records, all_users) ==
            [S2 EXCEPT !.reportView =
                [rows |-> records,
                 present |-> Cardinality(With(records, "present")),
                 late |-> Cardinality(With(records, "late")),
                 absent |-> Cardinality(all_users)
                              - Cardinality(With(records, "present"))
                              - Cardinality(With(records, "late"))]]
    IN  IF ~IsDate(date_str) THEN {Show(S0, "Invalid date format")}
        ELSE IF "attendance.scan" \in down THEN {Err(S1)}
        ELSE IF "users.scan" \in down THEN {Err(S2)}
        ELSE {Shown(records, all_users) :
                records \in ScanFirstPage(S.attendance, OfDate),
                all_users \in Pages(S.users)}

\* The items of a scan in the order the store returned them.
RECURSIVE Items(_)
Items(set) ==
    IF set = {} THEN <<>>
    ELSE LET x == CHOOSE y \in set : TRUE IN <<x>> \o Items(set \ {x})

\* strftime("%H:%M:%S") of a timestamp
TimeTexts == <<"00:00:00", "00:00:01", "00:00:02", "00:00:03", "00:00:04",
               "00:00:05">>
formatted_time(ts) == TimeTexts[ts.t + 1]

\* f"{float(confidence):.2f}%"
confidence_display(c) == IF c.v = "99.5" THEN "99.50%" ELSE "100.00%"

\* A line of the file is a sequence of characters and of cells written as
\* one piece; "," is the separator the f-string puts between the fields.
Header == <<"User ID", ",", "Name", ",", "Time", ",", "Status", ",", "Confidence">>
CsvLine(record) ==
    record.user_id \o <<",">> \o record.name \o <<",">>
        \o <<formatted_time(record.timestamp), ",", record.status, ",",
             confidence_display(record.confidence)>>

RECURSIVE CsvLines(_)
CsvLines(records) ==
    IF records = <<>> THEN <<>>
    ELSE <<CsvLine(Head(records))>> \o CsvLines(Tail(records))

\* export_attendance_report; save = FALSE when the save dialog is cancelled.
export_attendance_report(S, date_str, save, down) ==
    LET S1 == Call(S, "attendance.scan")
        OfDate(x) == begins_with(x.timestamp, date_str)
        Written(records) ==
            IF records = {} THEN Show(S1, "No records to export")
            ELSE IF ~save THEN S1
            ELSE Show([S1 EXCEPT !.csvFile = <<Header>> \o CsvLines(Items(records))],
                      "Report exported")
    IN  IF "attendance.scan" \in down THEN {ShowError(S1, "Failed to export report")}
        ELSE {Written(records) : records \in ScanFirstPage(S.attendance, OfDate)}

\* load_image_for_registration / _attendance / _verification; read = FALSE
\* when the dialog is cancelled or the file is no image.
load_image(S, tab, read, down, in) ==
    LET S1 == Touch([S EXCEPT !.captured[tab] = FileImage], "camera_label") IN
    IF ~read THEN {S}
    ELSE IF tab = "register"
    THEN {Show(R, "Image loaded") : R \in check_face_in_image(S1, down)}
    ELSE IF tab = "attendance" THEN process_attendance(S1, down, in)
    ELSE {Touch(D, "verify_results") : D \in detect_faces_in_image(S1, down)}

\* list_faces_in_collection
list_faces_in_collection(S, down) ==
    LET S1 == Call(S, "list_faces") IN
    IF "list_faces" \in down THEN {ShowError(S1, "Failed to list faces")}
    ELSE {Show(S1, "faces listed")}

\* check_aws_connection: the outcome goes to the status label.
check_aws_connection(S, down) ==
    LET S1 == Call(S, "list_collections") IN
    IF "list_collections" \in down THEN {Swallow(S1, "Error")}
    ELSE {Show(S1, "Connected")}

\* The calls on the two tables; all of them fail while the tables are missing.
TableApis == {"users.get_item", "users.put_item", "users.scan",
              "users.delete_item", "attendance.put_item", "attendance.scan"}
Failing(S, down) == IF S.provisioned THEN down ELSE down \cup TableApis

\* An exception nothing catches: the constructor does not return.
Uncaught(S) == [S EXCEPT !.fail.uncaught = TRUE, !.boot = "crashed"]

\* initialize_aws_resources: the tables are listed and created outside any
\* try; the collection is looked up and created inside one.
initialize_aws_resources(S, down) ==
    LET S1 == Call(S, "tables.all")
        S2 == IF S.provisioned THEN S1 ELSE Call(S1, "create_table")
        S3 == Call([S2 EXCEPT !.provisioned = TRUE], "list_collections")
        S4 == IF S.provisioned THEN S3 ELSE Call(S3, "create_collection")
        Failed(X) == ShowError([X EXCEPT !.boot = "run"],
                               "Failed to initialize AWS resources")
    IN  IF "tables.all" \in down THEN {Uncaught(S1)}
        ELSE IF ~S.provisioned /\ "create_table" \in down THEN {Uncaught(S2)}
        ELSE IF "list_collections" \in down THEN {Failed(S3)}
        ELSE IF ~S.provisioned /\ "create_collection" \in down THEN {Failed(S4)}
        ELSE {[S4 EXCEPT !.boot = "run"]}

\* FaceAttendanceApp.__init__: the tabs are built, each loading its view,
\* before the remote resources are looked up and created.
FaceAttendanceApp_init(S, down) ==
    LET d == Failing(S, down)
        Today == [kind |-> "date", day |-> S.today]
    IN  Bind(Bind(Bind(Bind(Bind(check_aws_connection(S, d),
                                 LAMBDA A : update_dashboard_stats(A, d)),
                            LAMBDA B : load_users(B, d)),
                       LAMBDA C : load_attendance_report(C, Today, d)),
                  LAMBDA D : load_verify_users(D, d)),
             LAMBDA E : initialize_aws_resources(E, down))

\* ------------------------------------------------------------ the camera
\* The services that fail during one handler: none, or one of those it calls.
Down(apis) == {{}} \cup {{a} : a \in apis}

\* A thread: its position, its display_label and its frame_count; one that
\* has not started or has returned has no locals.
NoThread == [pc |-> "none", tab |-> "register", fc |-> 0]
Returned == [pc |-> "done", tab |-> "register", fc |-> 0]

StartedBtn(tab) == [btn EXCEPT ![tab] = [text |-> "Stop Camera", capture |-> "normal"]]
StoppedBtn(tab) == [btn EXCEPT ![tab] = [text |-> "Start Camera", capture |-> "disabled"]]

UiReady == ui.pc = "idle" /\ ~closed /\ boot = "run"

\* start_camera(display_label), the command of a button reading Start Camera
start_camera(tab) ==
    /\ UiReady
    /\ btn[tab].text = "Start Camera"
    /\ op' = "start_camera" /\ calls' = <<>> /\ fail' = NoFail
    /\ UNCHANGED <<current_frame, nFrames, idleQ, ui, closed, captured,
                   storeVars, viewVars, f2d>>
    /\ IF is_camera_running
       THEN /\ msg' = "" /\ acc' = {}
            /\ UNCHANGED <<is_camera_running, camera, camera_thread, threads, btn>>
       ELSE \E opened \in BOOLEAN, ret \in BOOLEAN :
            IF ~opened
            THEN /\ camera' = "closed"
                 /\ msg' = "Could not open camera" /\ acc' = UiTouch("debug_mode_var")
                 /\ UNCHANGED <<is_camera_running, camera_thread, threads, btn>>
            ELSE IF ~ret
            THEN /\ camera' = "None"
                 /\ msg' = "Camera opened but could not read frames" /\ acc' = {}
                 /\ UNCHANGED <<is_camera_running, camera_thread, threads, btn>>
            ELSE /\ camera_thread < MaxSessions
                 /\ camera' = "open"
                 /\ is_camera_running' = TRUE
                 /\ btn' = StartedBtn(tab)
                 /\ camera_thread' = camera_thread + 1
                 /\ threads' = [threads EXCEPT ![camera_thread + 1] =
                                    [pc |-> "check", tab |-> tab, fc |-> 0]]
                 /\ msg' = "" /\ acc' = UiTouch("start_camera_btn")

\* What the recognition service and the wall clock answer in the camera runs.
CamIn == [confs |-> {[t |-> "float", v |-> "99.5"]}, lates |-> {FALSE}]

\* What a capture handler does after its call of stop_camera.
capture_rest(S, tab, down) ==
    IF tab = "register"
    THEN {Show(R, "Image captured") : R \in check_face_in_image(S, down)}
    ELSE IF tab = "attendance" THEN process_attendance(S, down, CamIn)
    ELSE {Show(Touch(D, "verify_results"), "Image captured")
            : D \in detect_faces_in_image(S, down)}

\* The handler that called stop_camera goes on when the call returns.
after_stop(S, cont, tab, down) ==
    IF cont = "stop_camera" THEN {S} ELSE capture_rest(S, tab, down)

\* stop_camera from the join on: release the device, reset the tab's buttons.
stop_camera_rest(S, cont, tab) ==
    /\ camera' = "None"
    /\ btn' = StoppedBtn(tab)
    /\ ui' = IdleUi
    /\ \E down \in Down({"detect_faces", "search_faces_by_image", "users.get_item",
                          "attendance.put_item", "users.scan", "attendance.scan"}) :
         \E R \in after_stop(Touch(S, "start_camera_btn"), cont, tab, down) :
            Commit(R, cont)

\* stop_camera up to the join: the UI thread blocks while the thread lives.
stop_camera_begin(S, cont, tab) ==
    /\ is_camera_running' = FALSE
    /\ UNCHANGED <<current_frame, camera_thread, threads, nFrames, closed>>
    /\ IF camera_thread # 0 /\ Alive(camera_thread)
       THEN /\ ui' = [pc |-> "join", tab |-> tab, cont |-> cont]
            /\ Commit(S, cont)
            /\ UNCHANGED <<camera, btn>>
       ELSE stop_camera_rest(S, cont, tab)

\* stop_camera(display_label), the command of a button reading Stop Camera
stop_camera(tab) ==
    /\ UiReady
    /\ btn[tab].text = "Stop Camera"
    /\ stop_camera_begin(Cur, "stop_camera", tab)

\* camera_thread.join(timeout=1.0) returns because the thread has finished
stop_camera_joined ==
    /\ ui.pc = "join"
    /\ ~Alive(camera_thread)
    /\ stop_camera_rest(Cur, ui.cont, ui.tab)
    /\ UNCHANGED <<is_camera_running, current_frame, camera_thread, threads,
                   nFrames, closed>>

\* camera_thread.join(timeout=1.0) returns after a second: the thread is
\* still in camera.read() or in a call into Tk
join_timeout == threads[camera_thread].pc \in {"read", "frame"}

stop_camera_timeout ==
    /\ ui.pc = "join"
    /\ Alive(camera_thread)
    /\ join_timeout
    /\ stop_camera_rest(Cur, ui.cont, ui.tab)
    /\ UNCHANGED <<is_camera_running, current_frame, camera_thread, threads,
                   nFrames, closed>>

\* capture_register_image / capture_attendance_image / capture_verify_image
capture_image(tab, name) ==
    /\ UiReady
    /\ btn[tab].capture = "normal"
    /\ IF current_frame # NoFrame
       THEN stop_camera_begin(Touch([Cur EXCEPT !.captured[tab] = current_frame],
                                    "camera_label"), name, tab)
       ELSE /\ Commit(Show(Cur, "No camera frame available"), name)
            /\ UNCHANGED <<is_camera_running, camera, current_frame, camera_thread,
                           threads, nFrames, ui, closed, btn>>

capture_register_image == capture_image("register", "capture_register_image")
capture_attendance_image == capture_image("attendance", "capture_attendance_image")
capture_verify_image == capture_image("verify", "capture_verify_image")

\* reset_register_image / reset_attendance / reset_verify_image
reset_image(tab, name) ==
    /\ UiReady
    /\ captured[tab] # NoFrame
    /\ Commit(Touch([Cur EXCEPT !.captured[tab] = NoFrame], "camera_label"), name)
    /\ UNCHANGED <<is_camera_running, camera, current_frame, camera_thread,
                   threads, nFrames, ui, closed, btn>>

reset_register_image == reset_image("register", "reset_register_image")
reset_attendance == reset_image("attendance", "reset_attendance")
reset_verify_image == reset_image("verify", "reset_verify_image")

\* ------------------------------------------- the operator and the store
\* What the operator types in the registration form.
Form(user_id, name, email, department) ==
    [user_id |-> user_id, name |-> name, email |-> email, department |-> department]
Forms ==
    {Form(<<"a">>, <<"N">>, <<"e">>, <<"H", "R">>),
     Form(<<" ", "b", " ">>, <<"N", ",", "N">>, <<"e", " ">>, <<"H", "R">>),
     Form(<<" ">>, <<"N">>, <<"e">>, <<"H", "R">>),
     Form(<<"a">>, <<>>, <<"e">>, <<"H", "R">>),
     Form(<<"b">>, <<"N">>, <<" ", " ">>, <<"H", "R">>),
     Form(<<"b">>, <<"N">>, <<"e">>, <<>>)}

\* What the operator types in the search box.
Terms == {<<>>, <<"A">>, <<"n">>, <<"h", "r">>}

\* What the recognition service returns for an image: any confidence (a
\* float or an int), before or after the late cut-off.
AnyIn == [confs |-> Confs, lates |-> BOOLEAN, quality |-> SliderPositions]

camKeep == <<is_camera_running, camera, current_frame, camera_thread, threads,
             nFrames, ui, closed, btn>>

\* A handler run to its end by the UI thread; Rs holds its outcomes for every
\* input and every failing call.
Handle(Rs, name) == \E R \in Rs : Commit(R, name) /\ UNCHANGED camKeep

\* app = FaceAttendanceApp()
app_start ==
    /\ boot = "new"
    /\ \E down \in Down({"tables.all", "create_table", "list_collections",
                         "create_collection", "users.scan", "attendance.scan"}) :
            Handle(FaceAttendanceApp_init(Cur, down), "FaceAttendanceApp_init")

register_user_click ==
    /\ UiReady
    /\ Handle(UNION {register_user(Cur, form, down, AnyIn) :
                        form \in Forms,
                        down \in Down({"users.get_item", "detect_faces", "index_faces",
                                       "users.put_item", "users.scan"})},
              "register_user")

load_image_for(tab, name) ==
    /\ UiReady
    /\ Handle(UNION {load_image(Cur, tab, read, down, AnyIn) :
                        read \in BOOLEAN,
                        down \in Down({"detect_faces", "search_faces_by_image",
                                       "users.get_item", "attendance.put_item"})},
              name)

load_image_for_registration == load_image_for("register", "load_image_for_registration")
load_image_for_attendance == load_image_for("attendance", "load_image_for_attendance")
load_image_for_verification == load_image_for("verify", "load_image_for_verification")

load_users_click ==
    /\ UiReady
    /\ \E down \in Down({"users.scan"}) : Handle(load_users(Cur, down), "load_users")

search_users_key ==
    /\ UiReady
    /\ \E term \in Terms : \E down \in Down({"users.scan"}) :
            Handle(search_users(Cur, term, down), "search_users")

delete_user_click ==
    /\ UiReady
    /\ Handle(UNION {delete_user(Cur, sel, confirm, down) :
                        sel \in usersView \cup {<<>>}, confirm \in BOOLEAN,
                        down \in Down({"users.get_item", "delete_faces",
                                       "users.delete_item"})},
              "delete_user")

load_verify_users_click ==
    /\ UiReady
    /\ \E down \in Down({"users.scan"}) :
            Handle(load_verify_users(Cur, down), "load_verify_users")

verify_face_click ==
    /\ UiReady
    /\ \E sel \in {verifyList[i] : i \in DOMAIN verifyList} \cup {<<>>} :
       \E down \in Down({"detect_faces", "search_faces_by_image", "users.get_item"}) :
            Handle(verify_face(Cur, sel, down), "verify_face")

list_faces_click ==
    /\ UiReady
    /\ \E down \in Down({"list_faces"}) :
            Handle(list_faces_in_collection(Cur, down), "list_faces_in_collection")

load_attendance_report_click ==
    /\ UiReady
    /\ \E date_str \in DateStrs : \E down \in Down({"attendance.scan", "users.scan"}) :
            Handle(load_attendance_report(Cur, date_str, down), "load_attendance_report")

export_attendance_report_click ==
    /\ UiReady
    /\ \E date_str \in DateStrs : \E save \in BOOLEAN :
       \E down \in Down({"attendance.scan"}) :
            Handle(export_attendance_report(Cur, date_str, save, down),
                   "export_attendance_report")

\* A pending after(60000, self.update_dashboard_stats) comes due.
update_dashboard_stats_timer ==
    /\ UiReady
    /\ timers > 0
    /\ \E down \in Down({"users.scan", "attendance.scan"}) :
            Handle(update_dashboard_stats([Cur EXCEPT !.timers = @ - 1], down),
                   "update_dashboard_stats")

\* Midnight passes: datetime.now() is on the next day.
midnight ==
    /\ today < MaxDays
    /\ Handle({[Cur EXCEPT !.today = @ + 1]}, "midnight")

\* on_closing: no join; the window is destroyed and the main loop ends.
on_closing ==
    /\ UiReady
    /\ closed' = TRUE
    /\ is_camera_running' = FALSE
    /\ camera' = IF is_camera_running /\ camera # "None" THEN "closed" ELSE camera
    /\ Commit(Cur, "on_closing")
    /\ UNCHANGED <<current_frame, camera_thread, threads, nFrames, ui, btn>>

\* The event loop, idle, runs the oldest after_idle callback.
run_idle(f) ==
    /\ UiReady
    /\ idleQ # <<>>
    /\ Head(idleQ).f = f
    /\ \E down \in Down({"detect_faces"}) :
         \E R \in RunCallback([Cur EXCEPT !.idleQ = Tail(@)], Head(idleQ), down) :
            Commit(R, f)
    /\ UNCHANGED <<is_camera_running, camera, current_frame, camera_thread,
                   threads, nFrames, ui, closed, btn>>

update_camera_display == run_idle("update_camera_display")
check_face_in_image_idle == run_idle("check_face_in_image")

\* ---- update_camera(display_label), one step of thread t at a time
CamStep(t, pc) ==
    /\ ~closed
    /\ threads[t].pc = pc
    /\ op' = "update_camera" /\ fail' = NoFail /\ msg' = ""
    /\ UNCHANGED <<is_camera_running, camera, camera_thread, ui, closed, btn,
                   captured, storeVars, viewVars, f2d>>

\* after the loop: if self.debug_mode_var.get(): print(...)
ExitAccess == {[by |-> "camera", w |-> "debug_mode_var"]}

\* while self.is_camera_running and self.camera: (and the loop's exit)
update_camera_check(t) ==
    /\ CamStep(t, "check")
    /\ IF is_camera_running /\ camera # "None"
       THEN threads' = [threads EXCEPT ![t].pc = "read"] /\ acc' = {}
       ELSE threads' = [threads EXCEPT ![t] = Returned] /\ acc' = ExitAccess
    /\ calls' = <<>>
    /\ UNCHANGED <<current_frame, nFrames, idleQ>>

\* ret, frame = self.camera.read(): None raises, a released device gives no
\* frame, an open one gives the next frame or none; without a frame the
\* loop breaks.
update_camera_read(t) ==
    /\ CamStep(t, "read")
    /\ calls' = <<>>
    /\ UNCHANGED <<current_frame, idleQ>>
    /\ \/ /\ camera = "open"
          /\ nFrames < MaxFrames
          /\ nFrames' = nFrames + 1
          /\ threads' = [threads EXCEPT ![t].pc = "frame"]
          /\ acc' = {}
       \/ /\ threads' = [threads EXCEPT ![t] = Returned]
          /\ acc' = ExitAccess
          /\ UNCHANGED nFrames

\* The camera thread's own accesses to Tk while it handles a frame.
FrameAccess(th) ==
    {[by |-> "camera", w |-> "display_label.winfo_width"]}
        \cup IF (th.fc + 1) % FpsEvery = 0
             THEN {[by |-> "camera", w |-> "debug_mode_var"]} ELSE {}

\* Is this frame of the thread one that is checked for a face?
FaceCheckDue(th) == th.tab = "register" /\ th.fc % CheckEvery = 0

FrameDispatchDirect(th, q) ==
    [idleQ |-> q \o <<[f |-> "update_camera_display"]>>,
     calls |-> IF FaceCheckDue(th)
               THEN <<[api |-> "detect_faces", by |-> "camera"]>> ELSE <<>>]
\* What the camera thread does with a frame: it queues the display update and,
\* when due, the face check with after_idle, and calls no service itself.
FrameDispatch(th, q) ==
    [idleQ |-> q \o <<[f |-> "update_camera_display"]>>
                 \o IF FaceCheckDue(th)
                    THEN <<[f |-> "check_face_in_image"]>> ELSE <<>>,
     calls |-> <<>>]

\* if ret: the frame is stored, measured against the label and dispatched
update_camera_frame(t) ==
    /\ CamStep(t, "frame")
    /\ current_frame' = Frame(t)
    /\ acc' = FrameAccess(threads[t])
    /\ idleQ' = FrameDispatch(threads[t], idleQ).idleQ
    /\ calls' = FrameDispatch(threads[t], idleQ).calls
    /\ threads' = [threads EXCEPT ![t].pc = "check", ![t].fc = @ + 1]
    /\ UNCHANGED nFrames

\* ------------------------------------------------------- initial states
NoF2D == [arg |-> Leaves, ret |-> Leaves, prev |-> Leaves, n |-> 0]

SeedUser ==
    [user_id |-> <<"a">>, name |-> <<"N">>, email |-> <<"e">>,
     department |-> <<"H", "R">>, face_id |-> 0,
     confidence |-> Decimal("99.5"), created_at |-> [day |-> 1, t |-> 0]]

InitApp ==
    /\ is_camera_running = FALSE
    /\ camera = "None"
    /\ current_frame = NoFrame
    /\ camera_thread = 0
    /\ threads = [t \in 1..MaxSessions |-> NoThread]
    /\ nFrames = 0
    /\ idleQ = <<>>
    /\ ui = IdleUi
    /\ closed = FALSE
    /\ btn = [tab \in Tabs |-> [text |-> "Start Camera", capture |-> "normal"]]
    /\ captured = [tab \in Tabs |-> NoFrame]
    /\ today = 1
    /\ reportView = NoReport
    /\ csvFile = <<>>
    /\ op = "init" /\ calls = <<>> /\ acc = {} /\ fail = NoFail /\ msg = ""

\* The camera runs start with one registered user in the remote store, and
\* room for one more record.
Init ==
    /\ InitApp
    /\ f2d = NoF2D
    /\ timers = 1
    /\ boot = "run"
    /\ provisioned = TRUE
    /\ clock = MaxClock - 1
    /\ users = {SeedUser}
    /\ faces = {[face_id |-> u.face_id, ext |-> u.user_id] : u \in users}
    /\ attendance = {}
    /\ usersView = {u.user_id : u \in users}
    /\ verifyList = IF users = {} THEN <<>> ELSE <<SeedUser.user_id>>
    /\ dash = [total |-> Cardinality(users), present |-> 0]

\* The store runs start before the constructor, on a first run (no table
\* yet) or a later one.
InitStore ==
    /\ InitApp
    /\ f2d = NoF2D
    /\ timers = 0
    /\ boot = "new"
    /\ provisioned \in BOOLEAN
    /\ clock = 0
    /\ users = {}
    /\ faces = {}
    /\ attendance = {}
    /\ usersView = {}
    /\ verifyList = <<>>
    /\ dash = [total |-> 0, present |-> 0]

NextStore ==
    \/ app_start
    \/ register_user_click
    \/ load_image_for_registration
    \/ load_image_for_attendance
    \/ reset_register_image
    \/ reset_attendance
    \/ load_users_click
    \/ delete_user_click

SpecStore == InitStore /\ [][NextStore]_vars

\* What earlier runs left in the store: more users than one scan page holds,
\* one of them with a comma in the name, and attendance on two days.
OldUser(user_id, name, k) ==
    [user_id |-> user_id, name |-> name, email |-> <<"e">>,
     department |-> <<"H", "R">>, face_id |-> k,
     confidence |-> Decimal("99.5"), created_at |-> [day |-> 1, t |-> k]]
OldUsers == {SeedUser, OldUser(<<"b">>, <<"N", ",", "N">>, 1),
             OldUser(<<"h">>, <<"R">>, 2)}
OldRecord(user_id, name, day, t, status, conf) ==
    [user_id |-> user_id, name |-> name, timestamp |-> [day |-> day, t |-> t],
     status |-> status, confidence |-> Decimal(conf)]
OldAttendance ==
    {OldRecord(<<"a">>, <<"N">>, 1, 0, "present", "99.5"),
     OldRecord(<<"b">>, <<"N", ",", "N">>, 1, 1, "late", "100"),
     OldRecord(<<"h">>, <<"R">>, 1, 2, "present", "99.5"),
     OldRecord(<<"a">>, <<"N">>, 2, 3, "present", "99.5")}

InitOld ==
    /\ InitApp
    /\ f2d = NoF2D
    /\ timers = 0
    /\ boot = "new"
    /\ provisioned = TRUE
    /\ clock = 0
    /\ faces = {[face_id |-> u.face_id, ext |-> u.user_id] : u \in users}
    /\ usersView = {}
    /\ verifyList = <<>>
    /\ dash = [total |-> 0, present |-> 0]

\* The views of the users table, verification and the dashboard.
InitViews ==
    /\ \/ users = {} /\ attendance = {}
       \/ users = {SeedUser} /\ attendance = {}
       \/ users = OldUsers /\ attendance = OldAttendance
    /\ InitOld

NextViews ==
    \/ app_start
    \/ load_users_click
    \/ search_users_key
    \/ load_verify_users_click
    \/ load_image_for_verification
    \/ reset_verify_image
    \/ verify_face_click
    \/ list_faces_click
    \/ update_dashboard_stats_timer
    \/ midnight

SpecViews == InitViews /\ [][NextViews]_vars

\* The attendance report and its export.
InitReport ==
    /\ users = OldUsers
    /\ attendance \in SUBSET OldAttendance
    /\ InitOld

NextReport ==
    \/ app_start
    \/ load_attendance_report_click
    \/ export_attendance_report_click

SpecReport == InitReport /\ [][NextReport]_vars

\* float_to_decimal applied to a value, and again to what it returned.
InitF2D ==
    /\ InitApp
    /\ boot = "run" /\ provisioned = TRUE /\ clock = 0 /\ timers = 1
    /\ users = {} /\ faces = {} /\ attendance = {}
    /\ usersView = {} /\ verifyList = <<>> /\ dash = [total |-> 0, present |-> 0]
    /\ f2d \in {[arg |-> x, ret |-> x, prev |-> x, n |-> 0] : x \in Values}

float_to_decimal_call ==
    /\ f2d.n < 2
    /\ f2d' = [f2d EXCEPT !.ret = float_to_decimal(@), !.prev = f2d.ret, !.n = @ + 1]
    /\ UNCHANGED <<camVars, captured, storeVars, viewVars, logVars>>

NextF2D == float_to_decimal_call

SpecF2D == InitF2D /\ [][NextF2D]_vars

Next ==
    \/ \E tab \in Tabs : start_camera(tab)
    \/ \E tab \in Tabs : stop_camera(tab)
    \/ stop_camera_joined
    \/ stop_camera_timeout
    \/ capture_register_image
    \/ capture_attendance_image
    \/ capture_verify_image
    \/ update_camera_display
    \/ check_face_in_image_idle
    \/ on_closing
    \/ \E t \in 1..MaxSessions : update_camera_check(t)
    \/ \E t \in 1..MaxSessions : update_camera_read(t)
    \/ \E t \in 1..MaxSessions : update_camera_frame(t)

Spec == Init /\ [][Next]_vars

\* ================================================================ claims
UiOps == {"init", "start_camera", "stop_camera", "capture_register_image",
          "capture_attendance_image", "capture_verify_image",
          "update_camera_display", "check_face_in_image", "on_closing"}
CaptureOps == {"capture_register_image", "capture_attendance_image",
               "capture_verify_image"}
CaptureTab(name) ==
    IF name = "capture_register_image" THEN "register"
    ELSE IF name = "capture_attendance_image" THEN "attendance" ELSE "verify"

\* C1: at most one camera thread is alive (executing update_camera) in every
\* reachable state.
C1_OneCameraThread == Cardinality(AliveThreads) <= 1

\* C2: the camera thread never reads or writes a widget or a Tk variable:
\* every such access is made in a step of the UI thread.
C2_WidgetsOnlyOnUiThread == \A a \in acc : a.by = "ui"

\* C3: every failure of a remote call, in any operation, is shown to the
\* operator in a modal dialog: none leaves the operation uncaught and none is
\* swallowed without a dialog.
C3_FailuresShownInDialog == ~fail.uncaught /\ ~fail.silent

\* C4: every remote call is issued by the UI thread in a handler or a
\* dispatched callback; a step of the camera thread issues none.
C4_RemoteCallsOnUiThread ==
    /\ \A i \in 1..Len(calls) : calls[i].by = "ui"
    /\ calls # <<>> => op \in UiOps \ {"init"}

\* C4 witness: the UI thread has run a face check that the camera thread
\* queued, and check_face_in_image called the detection service.
C4_Witness ==
    /\ op = "check_face_in_image"
    /\ calls = <<[api |-> "detect_faces", by |-> "ui"]>>
    /\ \E t \in DOMAIN threads : Alive(t) /\ threads[t].fc > 0

\* C5: after a successful refresh a view holds every record of the store
\* that meets its filter: the users table and the verification list every
\* user, the dashboard the number of users and of users present today.
AllUserIds == {u.user_id : u \in users}
C5_ViewsShowWholeStore ==
    /\ (op = "load_users" /\ fail = NoFail) => usersView = AllUserIds
    /\ (op \in {"load_users", "load_verify_users"} /\ fail = NoFail)
            => verifyList = SortTexts(AllUserIds)
    /\ (op = "update_dashboard_stats" /\ fail = NoFail)
            => /\ dash.total = Cardinality(users)
               /\ dash.present =
                    Cardinality({x.user_id : x \in {r \in attendance : r.timestamp.day = today}})

\* C6: an exported file starts with the header line and has one line for
\* each attendance record of one date, every line with the five fields of
\* the header.
NumFields(line) == 1 + Cardinality({i \in DOMAIN line : line[i] = ","})
C6_ExportedFile ==
    csvFile # <<>> =>
        /\ csvFile[1] = Header
        /\ \E d \in 1..MaxDays :
              Len(csvFile) - 1 = Cardinality({r \in attendance : r.timestamp.day = d})
        /\ \A i \in DOMAIN csvFile : NumFields(csvFile[i]) = 5

\* C7: every item in the users table and in the attendance table (all of
\* them written by register_user and process_attendance) holds its
\* confidence as a decimal, whether the service returned a float or an int.
C7_ConfidenceIsDecimal ==
    /\ \A u \in users : u.confidence.t = "decimal"
    /\ \A r \in attendance : r.confidence.t = "decimal"
C7_Witness ==
    /\ \E u \in users : u.confidence.v = "99.5"
    /\ \E r \in attendance : r.confidence.v = "100"

\* C8: float_to_decimal returns a value of the same shape (same keys, same
\* list lengths and order) without any float in it and with every other
\* leaf unchanged; a second application changes nothing.
RECURSIVE Converted(_, _)
Converted(a, r) ==
    IF a.t = "float" THEN r.t \notin {"float", "list", "dict"}
    ELSE IF a.t \in {"list", "dict"}
    THEN /\ r.t = a.t
         /\ Len(r.kids) = Len(a.kids)
         /\ a.t = "dict" => r.keys = a.keys
         /\ \A i \in DOMAIN a.kids : Converted(a.kids[i], r.kids[i])
    ELSE r = a
C8_FloatToDecimal ==
    /\ f2d.n = 1 => Converted(f2d.arg, f2d.ret)
    /\ f2d.n = 2 => Converted(f2d.arg, f2d.prev) /\ f2d.ret = f2d.prev
C8_Witness ==
    /\ f2d.n = 2
    /\ f2d.arg.t = "dict"
    /\ \E i \in DOMAIN f2d.arg.kids :
          /\ f2d.arg.kids[i].t = "list"
          /\ \E j \in DOMAIN f2d.arg.kids[i].kids : f2d.arg.kids[i].kids[j].t = "float"

\* C9: register_user, whatever is typed and whichever remote call fails,
\* writes only user records whose four fields are non-blank and which carry a
\* face_id, a confidence and a created_at; with a blank field or no captured
\* image it issues no remote call and writes nothing.
Blank(s) == \A i \in DOMAIN s : s[i] = " "
C9_RegisterUserValidates ==
    \A form \in Forms :
    \A down \in Down({"users.get_item", "detect_faces", "index_faces",
                      "users.put_item", "users.scan"}) :
    \A R \in register_user(Cur, form, down, AnyIn) :
        /\ \A u \in R.users \ users :
              /\ ~Blank(u.user_id) /\ ~Blank(u.name)
              /\ ~Blank(u.email) /\ ~Blank(u.department)
              /\ {"face_id", "confidence", "created_at"} \subseteq DOMAIN u
        /\ (\/ Blank(form.user_id) \/ Blank(form.name)
            \/ Blank(form.email) \/ Blank(form.department)
            \/ captured["register"] = NoFrame)
                => /\ R.calls = <<>>
                   /\ R.users = users /\ R.faces = faces
                   /\ R.attendance = attendance
C9_Witness ==
    /\ op = "register_user"
    /\ \E u \in users : /\ u.user_id = <<"b">> /\ u.email = <<"e">>
                         /\ u.created_at.t = clock - 1

\* C10: a capture stores the frame the running camera loop read last, and
\* with the camera not running it reports that no frame is available and
\* changes neither the captured image nor the remote tables.
C10_CaptureUsesRunningCamera ==
    [][(ui.pc = "idle" /\ op' \in CaptureOps) =>
        IF is_camera_running
        THEN current_frame # NoFrame =>
                captured'[CaptureTab(op')] = Frame(camera_thread)
        ELSE /\ msg' = "No camera frame available"
             /\ captured' = captured
             /\ users' = users /\ attendance' = attendance]_vars

\* C11: the tier register_user sends to index_faces is HIGH for an integer
\* part of the slider value of 90 and above, MEDIUM for 70..89, LOW for
\* 50..69 and NONE below 50; for every position of the slider (70..99) the
\* tier sent is HIGH or MEDIUM.
TierOf(tenths) ==
    IF tenths >= 900 THEN "HIGH"
    ELSE IF tenths >= 700 THEN "MEDIUM"
    ELSE IF tenths >= 500 THEN "LOW"
    ELSE "NONE"
FiltersSent(cs) == {cs[i].QualityFilter : i \in {j \in DOMAIN cs : cs[j].api = "index_faces"}}
C11_QualityFilterTier ==
    /\ op = "register_user" => FiltersSent(calls) \subseteq {"HIGH", "MEDIUM"}
    /\ \A slider \in SliderPositions :
       \A form \in {f \in Forms : f.user_id \notin AllUserIds} :
       \A R \in register_user(Cur, form, {}, [AnyIn EXCEPT !.quality = {slider}]) :
            FiltersSent(R.calls) \subseteq {TierOf(slider)}
    /\ \A tenths \in {0, 499, 500, 509, 699, 700, 899, 900, 1000} :
            quality_filter(int_float(tenths)) = TierOf(tenths)
C11_Witness ==
    /\ op = "register_user"
    /\ FiltersSent(calls) = {"HIGH"}
    /\ \E u \in users : u.created_at.t = clock - 1

\* C12: every face of the collection carries the user_id of a user record
\* whose face_id is that face, every user record's face_id names a face of
\* the collection, and process_attendance never reports a match without a
\* user record.
C12_FacesMatchUsers ==
    /\ \A f \in faces : \E u \in users : u.user_id = f.ext /\ u.face_id = f.face_id
    /\ \A u \in users : \E f \in faces : f.face_id = u.face_id
    /\ msg # "Error: User data not found"

\* C13: process_attendance leaves the attendance table as it is unless an
\* image is held, a face was detected, the search matched a face and the
\* matched id has a user record; it then adds exactly one record, with the
\* matched id and that user's name, and no call it needed had failed.
AttendanceApis == {"detect_faces", "search_faces_by_image", "users.get_item",
                   "attendance.put_item"}
CallsOf(cs, api) == Cardinality({i \in DOMAIN cs : cs[i].api = api})
C14_ThreadFinishedAtStop ==
    [][(ui.pc = "idle" /\ ~is_camera_running /\ ~closed)
            => /\ op' # "update_camera"
               /\ current_frame' = current_frame]_vars

\* C15: register_user with a user_id that has a record changes neither the
\* users table nor the face collection, and reports 'already exists' (when
\* the form is filled, an image is held and the lookup itself succeeds);
\* no register_user removes or overwrites a record.
RegisterApis == {"users.get_item", "detect_faces", "index_faces",
                 "users.put_item", "users.scan"}
C16_RegisterNeedsOneFace ==
    \A form \in Forms : \A down \in Down(RegisterApis) :
    \A R \in register_user(Cur, form, down, AnyIn) :
        /\ (R.users # users \/ R.faces # faces)
              => /\ CallsOf(R.calls, "detect_faces") = 1
                 /\ "detect_faces" \notin down
                 /\ R.ret = 1
                 /\ CallsOf(R.calls, "index_faces") = 1
                 /\ "index_faces" \notin down
        /\ \A u \in R.users \ users :
              \E f \in R.faces \ faces : f.ext = u.user_id /\ f.face_id = u.face_id
        /\ CallsOf(R.calls, "index_faces") = 0 => R.users = users /\ R.faces = faces
        /\ R.msg = "No face detected or face quality too low"
              => R.users = users /\ R.faces = faces
C16_Witness ==
    /\ op = "register_user"
    /\ CallsOf(calls, "detect_faces") = 1
    /\ CallsOf(calls, "index_faces") = 1
    /\ \E u \in users : \E f \in faces :
          /\ f.ext = u.user_id /\ f.face_id = u.face_id
          /\ u.created_at.t = clock - 1

\* C17: at any time at most one future update_dashboard_stats call is
\* pending.
C17_OneDashboardTimer == timers <= 1

\* C18: in the constructor every scan or get against the users or attendance
\* table comes after initialize_aws_resources has looked the tables up (and
\* created them).
C18_ResourcesBeforeReads ==
    op = "FaceAttendanceApp_init" =>
        \A i \in DOMAIN calls :
            calls[i].api \in TableApis =>
                \E j \in 1..(i - 1) : calls[j].api = "tables.all"

\* C19: on each of the three camera tabs the start/stop button reads
\* Stop Camera exactly when the camera is running, and the capture button is
\* enabled exactly when the camera is running.
C19_ButtonsFollowCamera ==
    \A tab \in Tabs :
        /\ btn[tab].text = "Stop Camera" <=> is_camera_running
        /\ btn[tab].capture = "normal" <=> is_camera_running

\* C20: while is_camera_running is set the device is open and a camera
\* thread is alive polling it.
C20_RunningMeansPolling ==
    is_camera_running => camera = "open" /\ AliveThreads # {}

====
